---- MODULE Spec2Model ----
(***************************************************************************)
(* Little Fluffy Clouds (lfc): reads CIDR networks from standard input,    *)
(* aggregates them and prints the result (src/rust/src/main.rs).           *)
(*                                                                         *)
(* main.rs holds parse_nets, gather and main.  gather delegates to the     *)
(* ipnet crate (IpNet::aggregate), whose code is not part of the           *)
(* repository: the aggregation is modelled as the interval-merge and       *)
(* range-decomposition algorithm of spec.md sections 4.2-4.5.  Address     *)
(* widths are scaled down from 32 and 128 bits to V4Bits and V6Bits.       *)
(***************************************************************************)
EXTENDS Integers, Sequences, FiniteSets, TLC

VARIABLES pc, args, stdin, nets, result, idx, stdout, diag, exit, st

vars == <<pc, args, stdin, nets, result, idx, stdout, diag, exit, st>>

(* ------------------------------ bounds --------------------------------- *)

V4Bits == 2
V6Bits == 3
MaxNets == 2
MaxLines == 2

(* --------------------------- address blocks ---------------------------- *)

Families == {"V4", "V6"}

Width(f) == IF f = "V4" THEN V4Bits ELSE V6Bits

MaxAddr(f) == 2 ^ Width(f) - 1

Addrs(f) == 0 .. MaxAddr(f)

\* An IpNet value: the address as written and the prefix length.
IpNet(f, a, l) == [fam |-> f, addr |-> a, len |-> l]

HostSize(n) == 2 ^ (Width(n.fam) - n.len)

\* Ipv4Net::network / Ipv6Net::network: the address with the host bits cleared.
network(n) == n.addr - (n.addr % HostSize(n))

\* Ipv4Net::broadcast / Ipv6Net::broadcast: the address with the host bits set.
broadcast(n) == network(n) + (HostSize(n) - 1)

IsCanonical(n) == n.addr % HostSize(n) = 0

AllNets(f) == {IpNet(f, a, l) : a \in Addrs(f), l \in 0 .. Width(f)}

\* The blocks in canonical form: prefix length l, base a multiple of 2^(w-l).
CanonNets(f) ==
    UNION {{IpNet(f, k * 2 ^ (Width(f) - l), l) : k \in 0 .. 2 ^ l - 1} :
           l \in 0 .. Width(f)}

(* ------------------------------ text ----------------------------------- *)

\* A line of text is a sequence of characters; a character is a space or a
\* word (a maximal run of non-space characters, kept as what it spells).
Chr(k, f, a, l) == [kind |-> k, fam |-> f, addr |-> a, len |-> l]

SP == Chr("space", "-", 0, 0)

Garbage == Chr("garbage", "-", 0, 0)

\* "addr": an address without "/prefix"; "cidr": "addr/prefix".
AddrText(f, a) == Chr("addr", f, a, 0)

CidrText(f, a, l) == Chr("cidr", f, a, l)

RECURSIVE trim_start(_)
trim_start(line) ==
    IF line # <<>> /\ Head(line) = SP THEN trim_start(Tail(line)) ELSE line

RECURSIVE trim_end(_)
trim_end(line) ==
    IF line # <<>> /\ line[Len(line)] = SP
    THEN trim_end(SubSeq(line, 1, Len(line) - 1))
    ELSE line

\* str::trim
trim(line) == trim_end(trim_start(line))

\* <IpNet as FromStr>::from_str: "addr/prefix" with prefix <= the family's
\* width; the address is kept as written.
ParseOk(text) ==
    /\ Len(text) = 1
    /\ text[1].kind = "cidr"
    /\ text[1].len <= Width(text[1].fam)

ParseNet(text) == IpNet(text[1].fam, text[1].addr, text[1].len)

\* <IpNet as Display>::fmt
to_string(n) == <<CidrText(n.fam, n.addr, n.len)>>

(* ---------------------------- parse_nets ------------------------------- *)

NonEmpty(line) == line # <<>>

\* lines.map(trim).filter(!is_empty)
Trimmed(lines) == SelectSeq([i \in 1 .. Len(lines) |-> trim(lines[i])], NonEmpty)

RECURSIVE ParseAll(_)
ParseAll(texts) ==
    IF texts = <<>> THEN [ok |-> TRUE, nets |-> <<>>, bad |-> <<>>]
    ELSE IF ~ParseOk(Head(texts))
         THEN [ok |-> FALSE, nets |-> <<>>, bad |-> Head(texts)]
         ELSE LET rest == ParseAll(Tail(texts))
              IN  IF rest.ok
                  THEN [rest EXCEPT !.nets = <<ParseNet(Head(texts))>> \o @]
                  ELSE rest

\* Mutant: invalid lines are skipped instead of aborting the run.
parse_nets_SkipInvalid(lines) ==
    LET good == SelectSeq(Trimmed(lines), ParseOk)
    IN  [ok |-> TRUE, nets |-> [i \in 1 .. Len(good) |-> ParseNet(good[i])],
         bad |-> <<>>]

\* Mutant: the lines are not trimmed before they are filtered and parsed.
parse_nets_NoTrim(lines) == ParseAll(SelectSeq(lines, NonEmpty))

\* parse_nets: ok with the networks, or the panic with the line it names.
parse_nets(lines) == ParseAll(Trimmed(lines))

(* ------------------- aggregation (IpNet::aggregate) -------------------- *)

\* Interval Mapper: the closed interval of addresses a block covers.
to_interval(n) == [start |-> network(n), end |-> broadcast(n)]

\* Sort order of the merger: start ascending, ties by end descending.
Before(a, b) == a.start < b.start \/ (a.start = b.start /\ a.end >= b.end)

RECURSIVE Insert(_, _)
Insert(iv, sorted) ==
    IF sorted = <<>> THEN <<iv>>
    ELSE IF Before(iv, Head(sorted)) THEN <<iv>> \o sorted
    ELSE <<Head(sorted)>> \o Insert(iv, Tail(sorted))

RECURSIVE SortIntervals(_)
SortIntervals(ivs) ==
    IF ivs = <<>> THEN <<>> ELSE Insert(Head(ivs), SortIntervals(Tail(ivs)))

\* a + b in an unsigned integer of the family's width, with the carry out.
AddW(a, b, f) ==
    [val |-> (a + b) % (2 ^ Width(f)), wrapped |-> a + b > MaxAddr(f)]

Max2(a, b) == IF a >= b THEN a ELSE b

\* Mutant: cur_end + 1 is computed even at the family's maximum address.
ContigWrapping(s, cur_end, f) ==
    LET n == AddW(cur_end, 1, f)
    IN  [contig |-> s <= n.val, wrapped |-> n.wrapped]

\* The merge scan's test "s <= cur_end + 1", width-aware: at the family's
\* maximum address nothing is added and every later interval is contiguous.
ContigStep(s, cur_end, f) ==
    IF cur_end = MaxAddr(f)
    THEN [contig |-> TRUE, wrapped |-> FALSE]
    ELSE LET n == AddW(cur_end, 1, f)
         IN  [contig |-> s <= n.val, wrapped |-> n.wrapped]

RECURSIVE Scan(_, _, _, _)
Scan(ivs, i, cur, f) ==
    IF i > Len(ivs) THEN <<cur>>
    ELSE IF ContigStep(ivs[i].start, cur.end, f).contig
         THEN Scan(ivs, i + 1, [cur EXCEPT !.end = Max2(cur.end, ivs[i].end)], f)
         ELSE <<cur>> \o Scan(ivs, i + 1, ivs[i], f)

\* Interval Merger: maximal contiguous ranges, ascending.
merge_intervals(ivs, f) ==
    IF ivs = <<>> THEN <<>>
    ELSE LET sorted == SortIntervals(ivs) IN Scan(sorted, 2, sorted[1], f)

\* The largest power of two that divides start and is at most max_length.
Fits(k, start, max_length) == start % (2 ^ k) = 0 /\ 2 ^ k <= max_length

\* Mutant: the block size is bounded by the length only, not by the alignment
\* of start.
largest_aligned_block_Unaligned(start, max_length, f) ==
    LET k == CHOOSE k \in 0 .. Width(f) :
                 /\ 2 ^ k <= max_length
                 /\ \A j \in 0 .. Width(f) : 2 ^ j <= max_length => j <= k
    IN  [size |-> 2 ^ k, len |-> Width(f) - k]

largest_aligned_block(start, max_length, f) ==
    LET k == CHOOSE k \in 0 .. Width(f) :
                 /\ Fits(k, start, max_length)
                 /\ \A j \in 0 .. Width(f) : Fits(j, start, max_length) => j <= k
    IN  [size |-> 2 ^ k, len |-> Width(f) - k]

\* Mutant: start + block_size is always computed and the loop ends when the
\* sum exceeds end.
AdvanceWrapping(start, size, end, f) ==
    LET n == AddW(start, size, f)
    IN  [done |-> n.val > end, start |-> n.val, wrapped |-> n.wrapped]

\* The decomposition step "start = start + block_size": reaching end is the
\* terminal condition, tested on the block's last address before any addition.
Advance(start, size, end, f) ==
    IF start + (size - 1) = end
    THEN [done |-> TRUE, start |-> start, wrapped |-> FALSE]
    ELSE LET n == AddW(start, size, f)
         IN  [done |-> FALSE, start |-> n.val, wrapped |-> n.wrapped]

\* Range Decomposer: the blocks that partition [start, end], ascending.
RECURSIVE Decompose(_, _, _)
Decompose(start, end, f) ==
    IF start > end THEN <<>>
    ELSE LET b == largest_aligned_block(start, end - start + 1, f)
             a == Advance(start, b.size, end, f)
         IN  <<IpNet(f, start, b.len)>>
             \o (IF a.done THEN <<>> ELSE Decompose(a.start, end, f))

RECURSIVE DecomposeAll(_, _)
DecomposeAll(ranges, f) ==
    IF ranges = <<>> THEN <<>>
    ELSE Decompose(Head(ranges).start, Head(ranges).end, f)
         \o DecomposeAll(Tail(ranges), f)

OfFamily(ns, f) == SelectSeq(ns, LAMBDA n : n.fam = f)

Intervals(ns) == [i \in 1 .. Len(ns) |-> to_interval(ns[i])]

\* Ipv4Net::aggregate / Ipv6Net::aggregate: one family's pipeline.
aggregate_family(ns, f) ==
    DecomposeAll(merge_intervals(Intervals(OfFamily(ns, f)), f), f)

\* IpNet::aggregate: the families apart, v4 results before v6 results.
IpNet_aggregate(ns) == aggregate_family(ns, "V4") \o aggregate_family(ns, "V6")

\* Mutant: the list is returned as it came, nothing is aggregated.
gather_NoAggregate(ns) == ns

\* Mutant: only the v4 networks are aggregated and returned.
gather_V4Only(ns) == aggregate_family(ns, "V4")

\* gather
gather(ns) == IpNet_aggregate(ns)

(* ------------------------------- main ---------------------------------- *)

NoDiag == [kind |-> "none", line |-> <<>>, arg |-> ""]

Idle ==
    [pc |-> "idle", fam |-> "V4", input |-> <<>>, ivs |-> <<>>, i |-> 0,
     cur |-> [start |-> 0, end |-> 0], ranges |-> <<>>, r |-> 0, start |-> 0,
     out |-> <<>>, wrapped |-> FALSE, iters |-> 0]

\* args[1] is "-h" or "--help": print the help text and return.
MainHelp ==
    /\ pc = "start"
    /\ Len(args) > 0
    /\ args[1] \in {"-h", "--help"}
    /\ stdout' = <<<<Chr("help", "-", 0, 0)>>>>
    /\ exit' = 0
    /\ pc' = "exited"
    /\ UNCHANGED <<args, stdin, nets, result, idx, diag, st>>

\* Any other argument: an error on standard error and exit(1).
MainBadArg ==
    /\ pc = "start"
    /\ Len(args) > 0
    /\ args[1] \notin {"-h", "--help"}
    /\ diag' = [kind |-> "arg", line |-> <<>>, arg |-> args[1]]
    /\ exit' = 1
    /\ pc' = "exited"
    /\ UNCHANGED <<args, stdin, nets, result, idx, stdout, st>>

\* let nets = parse_nets(stdin_contents.lines()), every line valid.
MainParse ==
    /\ pc = "start"
    /\ Len(args) = 0
    /\ parse_nets(stdin).ok
    /\ nets' = parse_nets(stdin).nets
    /\ pc' = "parsed"
    /\ UNCHANGED <<args, stdin, result, idx, stdout, diag, exit, st>>

\* parse_nets panics: the message names the line, the process exits with 101.
MainParsePanic ==
    /\ pc = "start"
    /\ Len(args) = 0
    /\ ~parse_nets(stdin).ok
    /\ diag' = [kind |-> "parse", line |-> parse_nets(stdin).bad, arg |-> ""]
    /\ exit' = 101
    /\ pc' = "exited"
    /\ UNCHANGED <<args, stdin, nets, result, idx, stdout, st>>

\* for n in gather(&nets): the call, before the first iteration.
MainGather ==
    /\ pc = "parsed"
    /\ result' = gather(nets)
    /\ idx' = 1
    /\ pc' = "printing"
    /\ UNCHANGED <<args, stdin, nets, stdout, diag, exit, st>>

\* println!("{}", n)
MainPrint ==
    /\ pc = "printing"
    /\ idx <= Len(result)
    /\ stdout' = Append(stdout, to_string(result[idx]))
    /\ idx' = idx + 1
    /\ UNCHANGED <<pc, args, stdin, nets, result, diag, exit, st>>

\* The loop ends and main returns.
MainReturn ==
    /\ pc = "printing"
    /\ idx > Len(result)
    /\ exit' = 0
    /\ pc' = "exited"
    /\ UNCHANGED <<args, stdin, nets, result, idx, stdout, diag, st>>

(* ------------------------------ inputs --------------------------------- *)

BSeq(S, n) == UNION {[1 .. k -> S] : k \in 0 .. n}

\* Words that appear on input lines: unparsable text, an address without a
\* prefix, sibling networks, a network with host bits set, a prefix longer
\* than the family's width, and a v6 network.
Words ==
    {Garbage, AddrText("V4", 1),
     CidrText("V4", 0, V4Bits), CidrText("V4", 1, V4Bits),
     CidrText("V4", 1, V4Bits - 1), CidrText("V4", 0, V4Bits + 1),
     CidrText("V6", 0, 0)}

Lines ==
    {<<>>, <<SP>>, <<CidrText("V4", 0, V4Bits), SP, CidrText("V4", 1, V4Bits)>>}
    \cup {<<w>> : w \in Words} \cup {<<SP, w>> : w \in Words}
    \cup {<<w, SP>> : w \in Words} \cup {<<SP, w, SP>> : w \in Words}

ArgLists == {<<>>, <<"-h">>, <<"--help">>, <<"--version">>}

Blocks == CanonNets("V4") \cup CanonNets("V6")

Init ==
    /\ pc = "start"
    /\ args \in ArgLists
    /\ stdin \in (IF args = <<>> THEN BSeq(Lines, MaxLines) ELSE {<<>>})
    /\ nets = <<>>
    /\ result = <<>>
    /\ idx = 0
    /\ stdout = <<>>
    /\ diag = NoDiag
    /\ exit = -1
    /\ st = Idle

Next ==
    \/ MainHelp
    \/ MainBadArg
    \/ MainParse
    \/ MainParsePanic
    \/ MainGather
    \/ MainPrint
    \/ MainReturn

Spec == Init /\ [][Next]_vars

\* gather on every list of blocks: main from the point where parse_nets has
\* returned the list.
InitGather ==
    /\ pc = "parsed"
    /\ args = <<>>
    /\ nets \in BSeq(Blocks, MaxNets)
    /\ stdin = [i \in 1 .. Len(nets) |-> to_string(nets[i])]
    /\ result = <<>>
    /\ idx = 0
    /\ stdout = <<>>
    /\ diag = NoDiag
    /\ exit = -1
    /\ st = Idle

NextGather ==
    \/ MainGather
    \/ MainPrint
    \/ MainReturn

SpecGather == InitGather /\ [][NextGather]_vars

(* ------------- one family's aggregation, one loop step at a time ------- *)

\* Map the blocks to intervals and sort them; the scan starts from the first.
StepSort ==
    /\ st.pc = "sort"
    /\ LET sorted == SortIntervals(Intervals(st.input))
       IN  st' = IF sorted = <<>>
                 THEN [st EXCEPT !.pc = "done"]
                 ELSE [st EXCEPT !.pc = "scan", !.ivs = sorted,
                                 !.cur = sorted[1], !.i = 2]
    /\ UNCHANGED <<pc, args, stdin, nets, result, idx, stdout, diag, exit>>

\* One interval of the merge scan: extend the current range or emit it.
StepScan ==
    /\ st.pc = "scan"
    /\ st.i <= Len(st.ivs)
    /\ LET iv == st.ivs[st.i]
           t == ContigStep(iv.start, st.cur.end, st.fam)
       IN  st' = IF t.contig
                 THEN [st EXCEPT !.cur.end = Max2(@, iv.end), !.i = @ + 1,
                                 !.wrapped = @ \/ t.wrapped]
                 ELSE [st EXCEPT !.ranges = Append(@, st.cur), !.cur = iv,
                                 !.i = @ + 1, !.wrapped = @ \/ t.wrapped]
    /\ UNCHANGED <<pc, args, stdin, nets, result, idx, stdout, diag, exit>>

\* The scan is over: emit the final range and start decomposing the first.
StepEmitLast ==
    /\ st.pc = "scan"
    /\ st.i > Len(st.ivs)
    /\ LET rs == Append(st.ranges, st.cur)
       IN  st' = [st EXCEPT !.ranges = rs, !.pc = "decomp", !.r = 1,
                            !.start = rs[1].start, !.iters = 0]
    /\ UNCHANGED <<pc, args, stdin, nets, result, idx, stdout, diag, exit>>

\* One iteration of "while start <= end" on the current merged range.
StepDecomp ==
    /\ st.pc = "decomp"
    /\ st.r <= Len(st.ranges)
    /\ st.start <= st.ranges[st.r].end
    /\ LET end == st.ranges[st.r].end
           b == largest_aligned_block(st.start, end - st.start + 1, st.fam)
           a == Advance(st.start, b.size, end, st.fam)
           emitted == [st EXCEPT !.out = Append(@, IpNet(st.fam, st.start, b.len)),
                                 !.wrapped = @ \/ a.wrapped]
       IN  st' = IF ~a.done
                 THEN [emitted EXCEPT !.start = a.start, !.iters = @ + 1]
                 ELSE IF st.r < Len(st.ranges)
                      THEN [emitted EXCEPT !.r = @ + 1, !.iters = 0,
                                           !.start = st.ranges[st.r + 1].start]
                      ELSE [emitted EXCEPT !.r = @ + 1, !.iters = @ + 1,
                                           !.pc = "done"]
    /\ UNCHANGED <<pc, args, stdin, nets, result, idx, stdout, diag, exit>>

InitSteps ==
    /\ pc = "gathering"
    /\ args = <<>>
    /\ \E f \in Families :
          /\ nets \in BSeq(CanonNets(f), MaxNets)
          /\ st = [Idle EXCEPT !.pc = "sort", !.fam = f, !.input = nets]
    /\ stdin = [i \in 1 .. Len(nets) |-> to_string(nets[i])]
    /\ result = <<>>
    /\ idx = 0
    /\ stdout = <<>>
    /\ diag = NoDiag
    /\ exit = -1

NextSteps ==
    \/ StepSort
    \/ StepScan
    \/ StepEmitLast
    \/ StepDecomp

SpecSteps == InitSteps /\ [][NextSteps]_vars

(* ------------------------------ properties ----------------------------- *)

SetOf(seq) == {seq[i] : i \in DOMAIN seq}

\* The addresses a block covers, and those a collection of blocks covers.
Covered(n) == network(n) .. broadcast(n)

CoverOf(S, f) == UNION {Covered(n) : n \in {m \in S : m.fam = f}}

\* gather has returned.
Gathered == pc \in {"printing", "exited"} /\ exit \in {-1, 0}

\* gather has just returned: the loop over its result has not started.
Returned == pc = "printing" /\ idx = 1

Overlap(a, b) == Covered(a) \cap Covered(b) # {}

Adjacent(a, b) ==
    broadcast(a) + 1 = network(b) \/ broadcast(b) + 1 = network(a)

\* The union of the two blocks is one aligned block of their family.
Mergeable(a, b) ==
    \E l \in 0 .. Width(a.fam) :
        LET c == IpNet(a.fam, IF network(a) <= network(b) THEN network(a) ELSE network(b), l)
        IN  IsCanonical(c) /\ Covered(c) = Covered(a) \cup Covered(b)

\* Same prefix length p >= 1 and equal in the first p - 1 bits.
Siblings(a, b) ==
    /\ a.fam = b.fam /\ a.len = b.len /\ a.len >= 1 /\ a # b
    /\ network(IpNet(a.fam, a.addr, a.len - 1))
         = network(IpNet(b.fam, b.addr, b.len - 1))

\* C1: in each family the addresses covered by gather's result are exactly
\* the addresses covered by its input.
C1_Coverage ==
    Returned =>
        \A f \in Families : CoverOf(SetOf(result), f) = CoverOf(SetOf(nets), f)

\* A block of the input is absorbed by a larger block of the input.
C1_Witness ==
    /\ Returned /\ Len(nets) = 2 /\ Len(result) = 1
    /\ nets[1].fam = nets[2].fam
    /\ Covered(nets[1]) # Covered(nets[2])
    /\ Covered(nets[1]) \subseteq Covered(nets[2])

\* C2 as stated: two distinct result blocks of one family neither overlap nor
\* are adjacent.
C2_NeverAdjacent ==
    Returned =>
        \A i, j \in DOMAIN result :
            (i # j /\ result[i].fam = result[j].fam)
                => ~Overlap(result[i], result[j]) /\ ~Adjacent(result[i], result[j])

\* C2 amended: two distinct result blocks of one family never overlap, and
\* their union is never a single aligned block (they may be adjacent across
\* an alignment boundary).
C2_DisjointUnmergeable ==
    Returned =>
        \A i, j \in DOMAIN result :
            (i # j /\ result[i].fam = result[j].fam)
                => ~Overlap(result[i], result[j]) /\ ~Mergeable(result[i], result[j])

\* Two adjacent blocks are in the result.
C2_Witness ==
    /\ Returned /\ Len(result) = 2
    /\ result[1].fam = result[2].fam
    /\ Adjacent(result[1], result[2])

\* The sets of at most k elements of X.
RECURSIVE UpTo(_, _)
UpTo(X, k) ==
    IF k = 0 THEN {{}}
    ELSE LET P == UpTo(X, k - 1) IN P \cup {T \cup {x} : T \in P, x \in X}

\* The aligned blocks of family f that lie inside the address set U.
BlocksIn(U, f) == {b \in CanonNets(f) : Covered(b) \subseteq U}

\* C3: in each family the result has no repeated block, no set of fewer
\* aligned blocks covers exactly the same addresses, and the only set of as
\* many blocks that does is the result itself.
C3_Minimal ==
    Returned =>
        \A f \in Families :
            LET R == OfFamily(result, f)
                U == CoverOf(SetOf(nets), f)
            IN  /\ Cardinality(SetOf(R)) = Len(R)
                /\ \A T \in UpTo(BlocksIn(U, f), Len(R)) :
                       CoverOf(T, f) = U => T = SetOf(R)

\* The input is itself a disjoint cover with more blocks than the result.
C3_Witness ==
    /\ Returned /\ Len(nets) = 2 /\ Len(result) = 1
    /\ nets[1].fam = nets[2].fam
    /\ ~Overlap(nets[1], nets[2])

\* C4: gather applied to its own result returns that result.
C4_Idempotent == Returned => gather(result) = result

\* The first application changed the list and left two blocks.
C4_Witness == Returned /\ Len(result) = 2 /\ result # nets

Rendered(blocks) == [i \in 1 .. Len(blocks) |-> to_string(blocks[i])]

\* C5: the result has every v4 block before every v6 block and, within a
\* family, strictly ascending base addresses; main prints it in that order,
\* one block per line.
C5_Order ==
    Gathered =>
        /\ \A i, j \in DOMAIN result :
               i < j =>
                   /\ result[i].fam = "V6" => result[j].fam = "V6"
                   /\ result[i].fam = result[j].fam => result[i].addr < result[j].addr
        /\ stdout = SubSeq(Rendered(result), 1, idx - 1)
        /\ pc = "exited" => stdout = Rendered(result)

\* Two blocks given in descending order have been printed.
C5_Witness ==
    /\ pc = "exited" /\ Len(stdout) = 2 /\ Len(nets) = 2
    /\ \/ nets[1].fam = "V6" /\ nets[2].fam = "V4"
       \/ nets[1].fam = nets[2].fam /\ nets[1].addr > nets[2].addr

\* Equal-sized neighbours that are not siblings.
Unaligned(a, b) ==
    /\ a.fam = b.fam /\ a.len = b.len
    /\ broadcast(a) + 1 = network(b)
    /\ ~Siblings(a, b)

CanStep ==
    \/ st.pc \in {"sort", "scan"}
    \/ /\ st.pc = "decomp"
       /\ st.r <= Len(st.ranges)
       /\ st.start <= st.ranges[st.r].end

\* C10: in one family's aggregation no address addition wraps past the
\* family's maximum address, the cursors stay inside the address space, each
\* range is decomposed in at most 2 * width iterations and the run goes on
\* until it is done; the result then covers exactly the input's addresses in
\* strictly ascending, non-overlapping blocks (none restarts at address 0).
C10_TopOfSpace ==
    /\ ~st.wrapped
    /\ st.start \in Addrs(st.fam)
    /\ st.cur.end \in Addrs(st.fam)
    /\ st.iters <= 2 * Width(st.fam)
    /\ st.pc # "done" => CanStep
    /\ st.pc = "done" =>
           /\ CoverOf(SetOf(st.out), st.fam) = CoverOf(SetOf(st.input), st.fam)
           /\ \A i, j \in DOMAIN st.out :
                  i < j => broadcast(st.out[i]) < network(st.out[j])

\* A range that ends at the family's maximum address and does not start at
\* address 0 has been decomposed into two blocks.
C10_Witness ==
    /\ st.pc = "done" /\ Len(st.out) = 2
    /\ MaxAddr(st.fam) \in CoverOf(SetOf(st.input), st.fam)
    /\ 0 \notin CoverOf(SetOf(st.input), st.fam)

(* ---- properties of the run from standard input (parse_nets and main) ---- *)

NonSpace(line) == {j \in DOMAIN line : line[j] # SP}

LineBlank(line) == NonSpace(line) = {}

\* The one word of the line, when it holds exactly one.
WordOf(line) == line[CHOOSE j \in NonSpace(line) : TRUE]

\* The line passes CIDR validation: one word "addr/prefix", the prefix no
\* longer than the family's width.
LineValid(line) ==
    /\ Cardinality(NonSpace(line)) = 1
    /\ WordOf(line).kind = "cidr"
    /\ WordOf(line).len <= Width(WordOf(line).fam)

InvalidLines == {i \in DOMAIN stdin : ~LineBlank(stdin[i]) /\ ~LineValid(stdin[i])}

FirstInvalid == CHOOSE i \in InvalidLines : \A j \in InvalidLines : i <= j

\* The line without the spaces around it.
Stripped(line) ==
    SubSeq(line, CHOOSE j \in NonSpace(line) : \A k \in NonSpace(line) : j <= k,
                 CHOOSE j \in NonSpace(line) : \A k \in NonSpace(line) : j >= k)

\* C6: when some non-blank input line fails validation, nothing is ever
\* written to standard output, gather is never reached, and the run ends with
\* a non-zero exit code and a diagnostic that names the first such line.
C6_FailFast ==
    (Len(args) = 0 /\ InvalidLines # {}) =>
        /\ stdout = <<>>
        /\ pc \in {"start", "exited"}
        /\ pc = "exited" =>
               /\ exit \notin {-1, 0}
               /\ diag.kind = "parse"
               /\ diag.line = Stripped(stdin[FirstInvalid])

\* The run has aborted on an invalid line that follows a valid one.
C6_Witness ==
    /\ pc = "exited" /\ Len(args) = 0 /\ Len(stdin) = 2
    /\ LineValid(stdin[1])
    /\ InvalidLines = {2}

\* The line spells a block that is not canonical: the prefix is longer than
\* the family's width or a bit beyond the prefix is set.
NonCanonicalLine(line) ==
    /\ Cardinality(NonSpace(line)) = 1
    /\ WordOf(line).kind = "cidr"
    /\ \/ WordOf(line).len > Width(WordOf(line).fam)
       \/ ~IsCanonical(IpNet(WordOf(line).fam, WordOf(line).addr, WordOf(line).len))

\* C7: an input line that spells a non-canonical block makes the run fail;
\* it never reaches gather.
C7_NonCanonicalRejected ==
    (Len(args) = 0 /\ \E i \in DOMAIN stdin : NonCanonicalLine(stdin[i])) =>
        /\ pc \in {"start", "exited"}
        /\ pc = "exited" => exit \notin {-1, 0}

NonBlankLines == {i \in DOMAIN stdin : ~LineBlank(stdin[i])}

\* The index of the k-th non-blank line.
NthNonBlank(k) ==
    CHOOSE i \in NonBlankLines : Cardinality({j \in NonBlankLines : j <= i}) = k

\* C8: when every non-blank line is valid once trimmed, parse_nets does not
\* fail and returns one network per non-blank line, in the order of the
\* lines, each the network its line spells; no line gives no network.
C8_ParseNets ==
    (Len(args) = 0 /\ InvalidLines = {} /\ pc # "start") =>
        /\ diag = NoDiag
        /\ exit \in {-1, 0}
        /\ Len(nets) = Cardinality(NonBlankLines)
        /\ \A k \in DOMAIN nets :
               LET w == WordOf(stdin[NthNonBlank(k)])
               IN  nets[k] = IpNet(w.fam, w.addr, w.len)

\* A blank line and a padded line were read and one network was returned.
C8_Witness ==
    /\ pc = "parsed" /\ Len(stdin) = 2 /\ Len(nets) = 1
    /\ LineBlank(stdin[1]) /\ stdin[1] # <<>>
    /\ Len(stdin[2]) = 3

====
